---- MODULE Spec2Model ----
(***************************************************************************)
(* FuzzyFortnight01 (src/main.py): the lobby / match / profile engine as a *)
(* state machine.  One action per public method of the engine; every call  *)
(* (successful, failing or silently dropped) is a step that records in     *)
(* `last` what the caller observes of it: the method called, the exception *)
(* raised ("none" when it returned) and the value returned (0 for None).   *)
(*                                                                         *)
(* Strings are sequences of one-character strings so that str.strip() and  *)
(* str.lower() are computed, not assumed.  Optional[str] is <<>> for None  *)
(* and <<s>> for the string s.  The identifiers "lobby-n" and "match-n"    *)
(* are represented by the number n (0 stands for None in                   *)
(* LobbyState.match_id).                                                   *)
(***************************************************************************)
EXTENDS Integers, Sequences, FiniteSets, TLC

VARIABLES lobbies, matches, profiles, event_log, next_match_id, next_lobby_id, last

vars == <<lobbies, matches, profiles, event_log, next_match_id, next_lobby_id, last>>

\* The engine's own state, without the record of the last call.
engine == <<lobbies, matches, profiles, event_log, next_match_id, next_lobby_id>>

----------------------------------------------------------------------------
\* Program constants.  TLC integers are 32 bit and the state space grows with
\* the lobby size, so the three constants below are scaled down; the others
\* keep the values of the source.

\* FF01_MAX_PLAYERS_PER_LOBBY = 100 in the source.
FF01_MAX_PLAYERS_PER_LOBBY == 2

\* FF01_MIN_PLAYERS_TO_START = 4 in the source.
FF01_MIN_PLAYERS_TO_START == 2

\* FF01_ENTRY_FEE_WEI = 10000000000000000 in the source.
FF01_ENTRY_FEE_WEI == 3

FF01_PRIZE_POOL_BP == 8500

FF01_BP_DENOM == 10000

FF01_XP_PER_KILL == 100

FF01_XP_PER_WIN == 500

\* Bounds of the exploration.
MaxLobbies == 1

MaxMatches == 2

\* Longest event log explored.
MaxLog == 6

\* Most PlayerJoined events explored.
MaxJoins == 3

----------------------------------------------------------------------------
\* Strings

None == <<>>

Some(s) == <<s>>

\* Python truthiness of an Optional[str]: None and "" are falsy.
Truthy(o) == o # None /\ o[1] # <<>>

\* str.lower() on one character.
LowerChar(c) ==
  IF c = "A" THEN "a" ELSE IF c = "B" THEN "b" ELSE c

\* str.lower()
Lower(s) == [i \in DOMAIN s |-> LowerChar(s[i])]

IsSpace(c) == c = " "

RECURSIVE LStrip(_)
LStrip(s) ==
  IF s # <<>> /\ IsSpace(Head(s)) THEN LStrip(Tail(s)) ELSE s

RECURSIVE RStrip(_)
RStrip(s) ==
  IF s # <<>> /\ IsSpace(s[Len(s)]) THEN RStrip(SubSeq(s, 1, Len(s) - 1)) ELSE s

\* str.strip()
Strip(s) == RStrip(LStrip(s))

\* The normalisation the engine applies to caller-supplied addresses.
Norm(s) == Lower(Strip(s))

----------------------------------------------------------------------------
\* Inputs

Players == { <<"A">>, <<" ", "a">>, <<"b">> }

Creators == { <<"A", " ">> }

Callers == { <<"a">>, <<"b">> }

Fees == { -1, 0, 2 * FF01_ENTRY_FEE_WEI, 2 * FF01_ENTRY_FEE_WEI + 1 }

Values == { FF01_ENTRY_FEE_WEI - 1, 2 * FF01_ENTRY_FEE_WEI }

Killers == { <<"a">>, <<" ", "a">>, <<"b">> }

Victims == { <<"b">> }

Winners == { None, Some(<<"A", " ">>) }

Claimants == { <<" ", "A">>, <<"b">> }

LobbyIds == 1 .. (MaxLobbies + 1)

MatchIds == 1 .. MaxMatches

----------------------------------------------------------------------------
\* dict with insertion order: a sequence of <<key, value>> pairs, keys unique.

DictHas(d, k) == \E i \in DOMAIN d : d[i][1] = k

DictGet(d, k, default) ==
  IF DictHas(d, k) THEN d[CHOOSE i \in DOMAIN d : d[i][1] = k][2] ELSE default

\* d[k] = v
DictSet(d, k, v) ==
  IF DictHas(d, k)
  THEN [i \in DOMAIN d |-> IF d[i][1] = k THEN <<k, v>> ELSE d[i]]
  ELSE Append(d, <<k, v>>)

\* Variant of Emit: the event is put at the head of the log.
Emit_Prepend(kind, data) == event_log' = << <<kind, data>> >> \o event_log

\* self._emit(event, data)
Emit(kind, data) == event_log' = Append(event_log, <<kind, data>>)

\* Number of events of a kind emitted so far.
Count(kind) == Cardinality({ i \in DOMAIN event_log : event_log[i][1] = kind })

\* What the caller observes of a call.
Outcome(op, err, ret) == [op |-> op, err |-> err, ret |-> ret]

\* time.time(): some positive number; only its sign is ever read.
time_time == 1

----------------------------------------------------------------------------
Init ==
  /\ lobbies = << >>
  /\ matches = << >>
  /\ profiles = << >>
  /\ event_log = << >>
  /\ next_match_id = 1
  /\ next_lobby_id = 1
  /\ last = [op |-> "init", err |-> "none", ret |-> 0]

----------------------------------------------------------------------------
\* create_lobby

\* Variant of LobbyFee: the upper limit excluded (< instead of <=).
LobbyFee_StrictUpper(entry_fee_wei) ==
  IF 0 < entry_fee_wei /\ entry_fee_wei < FF01_ENTRY_FEE_WEI * 2
  THEN entry_fee_wei
  ELSE FF01_ENTRY_FEE_WEI

\* fee = entry_fee_wei if 0 < entry_fee_wei <= FF01_ENTRY_FEE_WEI * 2 else FF01_ENTRY_FEE_WEI
LobbyFee(entry_fee_wei) ==
  IF 0 < entry_fee_wei /\ entry_fee_wei <= FF01_ENTRY_FEE_WEI * 2
  THEN entry_fee_wei
  ELSE FF01_ENTRY_FEE_WEI

create_lobby(creator, entry_fee_wei) ==
  /\ next_lobby_id <= MaxLobbies
  /\ Len(event_log) < MaxLog
  /\ LET lid == next_lobby_id
         fee == LobbyFee(entry_fee_wei)
     IN /\ next_lobby_id' = next_lobby_id + 1
        /\ lobbies' = lobbies @@ (lid :> [ creator |-> creator,
                                           players |-> << >>,
                                           phase |-> "WAITING",
                                           match_id |-> 0,
                                           entry_fee_wei |-> fee ])
        /\ Emit("LobbyCreated", [lobbyId |-> lid, creator |-> creator, entryFeeWei |-> fee])
        /\ last' = Outcome("create_lobby", "none", lid)
        /\ UNCHANGED <<matches, profiles, next_match_id>>

----------------------------------------------------------------------------
\* join_lobby

\* Variant of JoinError: the phase of the lobby is not checked.
JoinError_NoPhaseCheck(lobby_id, value_wei) ==
  IF lobby_id \notin DOMAIN lobbies THEN "FF01LobbyNotFoundError"
  ELSE IF Len(lobbies[lobby_id].players) >= FF01_MAX_PLAYERS_PER_LOBBY THEN "FF01LobbyFullError"
  ELSE IF value_wei < lobbies[lobby_id].entry_fee_wei THEN "FF01InsufficientEntryError"
  ELSE "none"

\* Variant of JoinError: the capacity check off by one (> instead of >=).
JoinError_OffByOne(lobby_id, value_wei) ==
  IF lobby_id \notin DOMAIN lobbies THEN "FF01LobbyNotFoundError"
  ELSE IF lobbies[lobby_id].phase # "WAITING" THEN "FF01LobbyNotFoundError"
  ELSE IF Len(lobbies[lobby_id].players) > FF01_MAX_PLAYERS_PER_LOBBY THEN "FF01LobbyFullError"
  ELSE IF value_wei < lobbies[lobby_id].entry_fee_wei THEN "FF01InsufficientEntryError"
  ELSE "none"

\* The checks of join_lobby, in the order of the code; "none" when it passes.
JoinError(lobby_id, value_wei) ==
  IF lobby_id \notin DOMAIN lobbies THEN "FF01LobbyNotFoundError"
  ELSE IF lobbies[lobby_id].phase # "WAITING" THEN "FF01LobbyNotFoundError"
  ELSE IF Len(lobbies[lobby_id].players) >= FF01_MAX_PLAYERS_PER_LOBBY THEN "FF01LobbyFullError"
  ELSE IF value_wei < lobbies[lobby_id].entry_fee_wei THEN "FF01InsufficientEntryError"
  ELSE "none"

\* key = player.strip().lower()
\* if key not in [p.lower() for p in lobby.players]: lobby.players.append(player)
JoinPlayers(players, player) ==
  IF Norm(player) \notin { Lower(players[i]) : i \in DOMAIN players }
  THEN Append(players, player)
  ELSE players

join_lobby(lobby_id, player, value_wei) ==
  LET e == JoinError(lobby_id, value_wei)
  IN IF e # "none"
     THEN /\ last' = Outcome("join_lobby", e, 0)
          /\ UNCHANGED engine
     ELSE /\ Len(event_log) < MaxLog
          /\ Count("PlayerJoined") < MaxJoins
          /\ lobbies' = [lobbies EXCEPT ![lobby_id].players = JoinPlayers(@, player)]
          /\ Emit("PlayerJoined", [lobbyId |-> lobby_id, player |-> player])
          /\ last' = Outcome("join_lobby", "none", 0)
          /\ UNCHANGED <<matches, profiles, next_match_id, next_lobby_id>>

----------------------------------------------------------------------------
\* start_match

\* Variant of StartError: the size check made before the caller check.
StartError_SizeFirst(lobby_id, caller) ==
  IF lobby_id \notin DOMAIN lobbies THEN "FF01LobbyNotFoundError"
  ELSE IF Len(lobbies[lobby_id].players) < FF01_MIN_PLAYERS_TO_START THEN "FF01LobbyFullError"
  ELSE IF Norm(caller) # Norm(lobbies[lobby_id].creator) THEN "FF01NotGameMasterError"
  ELSE "none"

\* Variant of StartError: the caller compared without strip().
StartError_NoStrip(lobby_id, caller) ==
  IF lobby_id \notin DOMAIN lobbies THEN "FF01LobbyNotFoundError"
  ELSE IF Lower(caller) # Lower(lobbies[lobby_id].creator) THEN "FF01NotGameMasterError"
  ELSE IF Len(lobbies[lobby_id].players) < FF01_MIN_PLAYERS_TO_START THEN "FF01LobbyFullError"
  ELSE "none"

\* The checks of start_match, in the order of the code; "none" when it passes.
StartError(lobby_id, caller) ==
  IF lobby_id \notin DOMAIN lobbies THEN "FF01LobbyNotFoundError"
  ELSE IF Norm(caller) # Norm(lobbies[lobby_id].creator) THEN "FF01NotGameMasterError"
  ELSE IF Len(lobbies[lobby_id].players) < FF01_MIN_PLAYERS_TO_START THEN "FF01LobbyFullError"
  ELSE "none"

\* kills={p: 0 for p in lobby.players}
RECURSIVE KillsInit(_)
KillsInit(players) ==
  IF players = << >> THEN << >>
  ELSE DictSet(KillsInit(SubSeq(players, 1, Len(players) - 1)), players[Len(players)], 0)

\* Variant of start_match: the match id is allocated before the checks.
start_match_AllocBeforeCheck(lobby_id, caller) ==
  LET e == StartError(lobby_id, caller)
  IN IF e # "none"
     THEN /\ last' = Outcome("start_match", e, 0)
          /\ next_match_id' = next_match_id + 1
          /\ UNCHANGED <<lobbies, matches, profiles, event_log, next_lobby_id>>
     ELSE /\ next_match_id <= MaxMatches
          /\ Len(event_log) < MaxLog
          /\ LET mid == next_match_id
                 lobby == lobbies[lobby_id]
             IN /\ next_match_id' = next_match_id + 1
                /\ lobbies' = [lobbies EXCEPT ![lobby_id].phase = "IN_PROGRESS",
                                              ![lobby_id].match_id = mid]
                /\ matches' = matches @@ (mid :> [ winner |-> None,
                                                   kills |-> KillsInit(lobby.players),
                                                   ended_at |-> 0 ])
                /\ Emit("MatchStarted", [ matchId |-> mid, lobbyId |-> lobby_id,
                                          playerCount |-> Len(lobby.players) ])
                /\ last' = Outcome("start_match", "none", mid)
                /\ UNCHANGED <<profiles, next_lobby_id>>

start_match(lobby_id, caller) ==
  LET e == StartError(lobby_id, caller)
  IN IF e # "none"
     THEN /\ last' = Outcome("start_match", e, 0)
          /\ UNCHANGED engine
     ELSE /\ next_match_id <= MaxMatches
          /\ Len(event_log) < MaxLog
          /\ LET mid == next_match_id
                 lobby == lobbies[lobby_id]
             IN /\ next_match_id' = next_match_id + 1
                /\ lobbies' = [lobbies EXCEPT ![lobby_id].phase = "IN_PROGRESS",
                                              ![lobby_id].match_id = mid]
                /\ matches' = matches @@ (mid :> [ winner |-> None,
                                                   kills |-> KillsInit(lobby.players),
                                                   ended_at |-> 0 ])
                /\ Emit("MatchStarted", [ matchId |-> mid, lobbyId |-> lobby_id,
                                          playerCount |-> Len(lobby.players) ])
                /\ last' = Outcome("start_match", "none", mid)
                /\ UNCHANGED <<profiles, next_lobby_id>>

----------------------------------------------------------------------------
\* record_kill (the caller argument is never read)

\* Variant of KillDropped: the end time is not looked at.
KillDropped_IgnoresEnd(match_id) ==
  match_id \notin DOMAIN matches

\* if match_id not in self._matches: return ... if m.ended_at > 0: return
KillDropped(match_id) ==
  \/ match_id \notin DOMAIN matches
  \/ matches[match_id].ended_at > 0

\* keys = [x.lower() for x in m.kills.keys()]
\* if k in keys: m.kills[killer] = m.kills.get(killer, 0) + 1
KillsAfter(kills, killer) ==
  IF Norm(killer) \in { Lower(kills[i][1]) : i \in DOMAIN kills }
  THEN DictSet(kills, killer, DictGet(kills, killer, 0) + 1)
  ELSE kills

record_kill(match_id, killer, victim) ==
     IF KillDropped(match_id)
     THEN /\ last' = Outcome("record_kill", "none", 0)
          /\ UNCHANGED engine
     ELSE /\ Len(event_log) < MaxLog
          /\ matches' = [matches EXCEPT ![match_id].kills = KillsAfter(@, killer)]
          /\ Emit("KillRecorded", [matchId |-> match_id, killer |-> killer, victim |-> victim])
          /\ last' = Outcome("record_kill", "none", 0)
          /\ UNCHANGED <<lobbies, profiles, next_match_id, next_lobby_id>>

----------------------------------------------------------------------------
\* end_match (the caller argument is never read)

\* PlayerProfile(addr, 0, 0, 0, 0, self._current_season_id, time.time())
NewProfile(addr) ==
  [ address |-> addr, total_kills |-> 0, total_wins |-> 0, total_matches |-> 0,
    xp |-> 0, season_id |-> 1 ]

\* self._profiles[key] = prof
ProfSet(profs, key, prof) ==
  [ x \in (DOMAIN profs) \cup {key} |-> IF x = key THEN prof ELSE profs[x] ]

\* Variant of CreditKills: participants without kills are skipped.
RECURSIVE CreditKills_SkipZero(_, _, _)
CreditKills_SkipZero(profs, kills, i) ==
  IF i > Len(kills) THEN profs
  ELSE LET addr == kills[i][1]
           k == kills[i][2]
           key == Lower(addr)
           prof == IF key \in DOMAIN profs THEN profs[key] ELSE NewProfile(addr)
           credited == [prof EXCEPT !.total_kills = @ + k,
                                    !.total_matches = @ + 1,
                                    !.xp = @ + k * FF01_XP_PER_KILL]
       IN CreditKills_SkipZero(IF k > 0 THEN ProfSet(profs, key, credited) ELSE profs,
                               kills, i + 1)

\* for addr, k in m.kills.items(): ... from item i on
RECURSIVE CreditKills(_, _, _)
CreditKills(profs, kills, i) ==
  IF i > Len(kills) THEN profs
  ELSE LET addr == kills[i][1]
           k == kills[i][2]
           key == Lower(addr)
           prof == IF key \in DOMAIN profs THEN profs[key] ELSE NewProfile(addr)
           credited == [prof EXCEPT !.total_kills = @ + k,
                                    !.total_matches = @ + 1,
                                    !.xp = @ + k * FF01_XP_PER_KILL]
       IN CreditKills(ProfSet(profs, key, credited), kills, i + 1)

\* if winner: w = self._profiles.get(winner.strip().lower()); if w: ...
CreditWinner(profs, winner) ==
  IF Truthy(winner) /\ Norm(winner[1]) \in DOMAIN profs
  THEN [profs EXCEPT ![Norm(winner[1])].total_wins = @ + 1,
                     ![Norm(winner[1])].xp = @ + FF01_XP_PER_WIN]
  ELSE profs

\* Variant of end_match: the lobby that links the match is marked FINISHED.
end_match_FinishesLobby(match_id, winner) ==
     IF match_id \notin DOMAIN matches
     THEN /\ last' = Outcome("end_match", "FF01LobbyNotFoundError", 0)
          /\ UNCHANGED engine
     ELSE /\ Len(event_log) < MaxLog
          /\ matches' = [matches EXCEPT ![match_id].winner = winner,
                                        ![match_id].ended_at = time_time]
          /\ profiles' = CreditWinner(CreditKills(profiles, matches[match_id].kills, 1), winner)
          /\ lobbies' = [l \in DOMAIN lobbies |->
                           IF lobbies[l].match_id = match_id
                           THEN [lobbies[l] EXCEPT !.phase = "FINISHED"]
                           ELSE lobbies[l]]
          /\ Emit("MatchEnded", [matchId |-> match_id, winner |-> winner])
          /\ last' = Outcome("end_match", "none", 0)
          /\ UNCHANGED <<next_match_id, next_lobby_id>>

end_match(match_id, winner) ==
     IF match_id \notin DOMAIN matches
     THEN /\ last' = Outcome("end_match", "FF01LobbyNotFoundError", 0)
          /\ UNCHANGED engine
     ELSE /\ Len(event_log) < MaxLog
          /\ matches' = [matches EXCEPT ![match_id].winner = winner,
                                        ![match_id].ended_at = time_time]
          /\ profiles' = CreditWinner(CreditKills(profiles, matches[match_id].kills, 1), winner)
          /\ Emit("MatchEnded", [matchId |-> match_id, winner |-> winner])
          /\ last' = Outcome("end_match", "none", 0)
          /\ UNCHANGED <<lobbies, next_match_id, next_lobby_id>>

----------------------------------------------------------------------------
\* claim_prize

ClaimError(match_id) ==
  IF match_id \notin DOMAIN matches THEN "FF01LobbyNotFoundError"
  ELSE IF matches[match_id].ended_at <= 0 THEN "FF01MatchNotFinishedError"
  ELSE "none"

\* pool = len(m.kills) * FF01_ENTRY_FEE_WEI; share = (pool * FF01_PRIZE_POOL_BP) // FF01_BP_DENOM
PrizeShare(m) ==
  ((Len(m.kills) * FF01_ENTRY_FEE_WEI) * FF01_PRIZE_POOL_BP) \div FF01_BP_DENOM

\* if m.winner and player.strip().lower() == m.winner.strip().lower(): return share
\* return 0
ClaimValue(m, player) ==
  IF Truthy(m.winner) /\ Norm(player) = Norm(m.winner[1]) THEN PrizeShare(m) ELSE 0

\* Variant of claim_prize: a successful claim is logged as PrizeClaimed.
claim_prize_EmitsEvent(match_id, player) ==
  LET e == ClaimError(match_id)
  IN /\ last' = Outcome("claim_prize", e,
                        IF e = "none" THEN ClaimValue(matches[match_id], player) ELSE 0)
     /\ IF e = "none"
        THEN Emit("PrizeClaimed", [matchId |-> match_id, player |-> player])
        ELSE UNCHANGED event_log
     /\ UNCHANGED <<lobbies, matches, profiles, next_match_id, next_lobby_id>>

claim_prize(match_id, player) ==
  LET e == ClaimError(match_id)
  IN /\ last' = Outcome("claim_prize", e,
                        IF e = "none" THEN ClaimValue(matches[match_id], player) ELSE 0)
     /\ UNCHANGED engine

----------------------------------------------------------------------------
Next ==
  \/ \E c \in Creators, f \in Fees : create_lobby(c, f)
  \/ \E l \in LobbyIds, p \in Players, v \in Values : join_lobby(l, p, v)
  \/ \E l \in LobbyIds, c \in Callers : start_match(l, c)
  \/ \E m \in MatchIds, k \in Killers, v \in Victims : record_kill(m, k, v)
  \/ \E m \in MatchIds, w \in Winners : end_match(m, w)
  \/ \E m \in MatchIds, p \in Claimants : claim_prize(m, p)

Spec == Init /\ [][Next]_vars

----------------------------------------------------------------------------
\* XP tiers and rank names: ff01_rank_for_xp and ff01_xp_to_next_rank.
\* Sequences are indexed from 1, the lists of the code from 0.

FF01_XP_TIERS == <<0, 500, 1500, 3500, 7500, 15000, 30000, 60000, 120000, 250000>>

FF01_RANK_NAMES ==
  <<"Newbie", "Rookie", "Fighter", "Veteran", "Champion", "Elite", "Master",
    "Grandmaster", "Legend", "Apex">>

Min(a, b) == IF a <= b THEN a ELSE b

\* The loop of ff01_rank_for_xp from index i down to the first tier; the
\* lowest name when no tier is reached.
RECURSIVE RankScan(_, _)
RankScan(xp, i) ==
  IF i < 1 THEN FF01_RANK_NAMES[1]
  ELSE IF xp >= FF01_XP_TIERS[i] THEN FF01_RANK_NAMES[Min(i, Len(FF01_RANK_NAMES))]
  ELSE RankScan(xp, i - 1)

\* The same loop with a strict comparison.
RECURSIVE RankScan_Strict(_, _)
RankScan_Strict(xp, i) ==
  IF i < 1 THEN FF01_RANK_NAMES[1]
  ELSE IF xp > FF01_XP_TIERS[i] THEN FF01_RANK_NAMES[Min(i, Len(FF01_RANK_NAMES))]
  ELSE RankScan_Strict(xp, i - 1)

\* Variant of ff01_rank_for_xp: a tier is reached only above its threshold.
ff01_rank_for_xp_Strict(xp) == RankScan_Strict(xp, Len(FF01_XP_TIERS))

ff01_rank_for_xp(xp) == RankScan(xp, Len(FF01_XP_TIERS))

\* The loop of ff01_xp_to_next_rank from index i up to the last tier.
RECURSIVE NextScan(_, _)
NextScan(xp, i) ==
  IF i > Len(FF01_XP_TIERS) THEN 0
  ELSE IF xp < FF01_XP_TIERS[i] THEN FF01_XP_TIERS[i] - xp
  ELSE NextScan(xp, i + 1)

ff01_xp_to_next_rank(xp) == NextScan(xp, 1)

\* Every xp up to MaxXp is tried, and every threshold with its two neighbours.
MaxXp == 20

XpInputs ==
  (0..MaxXp) \cup
  { x \in { FF01_XP_TIERS[i] + d : i \in DOMAIN FF01_XP_TIERS, d \in {-1, 0, 1} } : x >= 0 }

\* A fresh engine and an xp value on which the two functions are called.
InitRank ==
  /\ lobbies = << >>
  /\ matches = << >>
  /\ profiles = << >>
  /\ event_log = << >>
  /\ next_match_id = 1
  /\ next_lobby_id = 1
  /\ \E xp \in XpInputs : last = [op |-> "init", xp |-> xp, ret |-> 0]

CallRankForXp ==
  /\ last' = [op |-> "ff01_rank_for_xp", xp |-> last.xp, ret |-> ff01_rank_for_xp(last.xp)]
  /\ UNCHANGED engine

CallXpToNextRank ==
  /\ last' = [op |-> "ff01_xp_to_next_rank", xp |-> last.xp,
              ret |-> ff01_xp_to_next_rank(last.xp)]
  /\ UNCHANGED engine

NextRank ==
  \/ CallRankForXp
  \/ CallXpToNextRank

SpecRank == InitRank /\ [][NextRank]_vars

----------------------------------------------------------------------------
\* Properties

\* The lowercased keys of a match's kill mapping.
KillKeysLower(m) == { Lower(matches[m].kills[i][1]) : i \in DOMAIN matches[m].kills }

\* playerCount of the MatchStarted event of match m: the number of lobby
\* members when the match was started.
StartCount(m) ==
  LET i == CHOOSE i \in DOMAIN event_log :
             event_log[i][1] = "MatchStarted" /\ event_log[i][2].matchId = m
  IN event_log[i][2].playerCount

\* The profile counters of an address that has no profile.
NoProfile == [total_kills |-> 0, total_wins |-> 0, total_matches |-> 0, xp |-> 0]

ProfileOrZero(key) == IF key \in DOMAIN profiles THEN profiles[key] ELSE NoProfile

\* C1: in every reachable state every lobby's player list has at most
\* FF01_MAX_PLAYERS_PER_LOBBY entries.
C1_PlayersWithinCap ==
  \A l \in DOMAIN lobbies : Len(lobbies[l].players) <= FF01_MAX_PLAYERS_PER_LOBBY

\* A join was refused with the capacity error on a lobby that is at the cap.
C1_Witness ==
  /\ last.op = "join_lobby"
  /\ last.err = "FF01LobbyFullError"
  /\ \E l \in DOMAIN lobbies : Len(lobbies[l].players) = FF01_MAX_PLAYERS_PER_LOBBY

\* C2: a successful join_lobby with a player whose normalized (trimmed,
\* lowercased) address is the normalized address of a member leaves the player
\* list unchanged and appends one PlayerJoined event, so no lobby ever holds two
\* entries with the same normalized address.
C2_JoinIdempotent ==
  [][ /\ \A l \in LobbyIds, p \in Players, v \in Values :
           ( /\ last'.op = "join_lobby"
             /\ JoinError(l, v) = "none"
             /\ join_lobby(l, p, v)
             /\ \E i \in DOMAIN lobbies[l].players : Norm(lobbies[l].players[i]) = Norm(p) )
           => /\ lobbies'[l].players = lobbies[l].players
              /\ event_log' = Append(event_log,
                                     <<"PlayerJoined", [lobbyId |-> l, player |-> p]>>)
      /\ \A l \in DOMAIN lobbies' : \A i, j \in DOMAIN lobbies'[l].players :
           i # j => Norm(lobbies'[l].players[i]) # Norm(lobbies'[l].players[j])
    ]_vars

\* C3: claim_prize on an ended match returns
\* floor(participantCount * FF01_ENTRY_FEE_WEI * FF01_PRIZE_POOL_BP / FF01_BP_DENOM)
\* to a player whose normalized address is the winner's and 0 to any other,
\* participantCount being the number of lobby members when the match was
\* started, whatever kills were recorded.
C3_PrizeFromStartCount ==
  [][ \A m \in MatchIds, p \in Claimants :
        ( /\ last'.op = "claim_prize"
          /\ ClaimError(m) = "none"
          /\ claim_prize(m, p) )
        => last'.ret =
             IF matches[m].winner # None /\ Norm(p) = Norm(matches[m].winner[1])
             THEN (StartCount(m) * FF01_ENTRY_FEE_WEI * FF01_PRIZE_POOL_BP) \div FF01_BP_DENOM
             ELSE 0
    ]_vars

\* C4: after a successful end_match every participant with a final kill count
\* k > 0 has a profile under its normalized address whose total_kills grew by
\* exactly k, whose total_matches grew by exactly 1, and whose xp grew by
\* k * FF01_XP_PER_KILL, plus FF01_XP_PER_WIN only if the participant is the
\* winner.
C4_KillsCredited ==
  [][ \A m \in MatchIds, w \in Winners :
        ( /\ last'.op = "end_match"
          /\ m \in DOMAIN matches
          /\ end_match(m, w) )
        => \A i \in DOMAIN matches[m].kills :
             LET addr == matches[m].kills[i][1]
                 k == matches[m].kills[i][2]
                 key == Norm(addr)
                 old == ProfileOrZero(key)
                 win == IF w # None /\ Norm(w[1]) = key THEN FF01_XP_PER_WIN ELSE 0
             IN k > 0 =>
                  /\ key \in DOMAIN profiles'
                  /\ profiles'[key].total_kills = old.total_kills + k
                  /\ profiles'[key].total_matches = old.total_matches + 1
                  /\ profiles'[key].xp = old.xp + k * FF01_XP_PER_KILL + win
    ]_vars

C6_TooFewAlwaysFull ==
  [][ \A l \in LobbyIds, c \in Callers :
        ( /\ last'.op = "start_match"
          /\ l \in DOMAIN lobbies
          /\ Len(lobbies[l].players) < FF01_MIN_PLAYERS_TO_START
          /\ start_match(l, c) )
        => last'.err = "FF01LobbyFullError"
    ]_vars

\* C6 (amended): start_match on an existing lobby with fewer than
\* FF01_MIN_PLAYERS_TO_START members fails whoever the caller is: with
\* FF01LobbyFullError when the caller's normalized address is the creator's,
\* with FF01NotGameMasterError for any other caller; nothing changes.
C6_TooFewFails ==
  [][ \A l \in LobbyIds, c \in Callers :
        ( /\ last'.op = "start_match"
          /\ l \in DOMAIN lobbies
          /\ Len(lobbies[l].players) < FF01_MIN_PLAYERS_TO_START
          /\ start_match(l, c) )
        => /\ last'.err = IF Norm(c) = Norm(lobbies[l].creator)
                          THEN "FF01LobbyFullError"
                          ELSE "FF01NotGameMasterError"
           /\ UNCHANGED engine
    ]_vars

\* The creator's start was refused for want of players.
C6_Witness ==
  /\ last.op = "start_match"
  /\ last.err = "FF01LobbyFullError"
  /\ \E l \in DOMAIN lobbies : Len(lobbies[l].players) < FF01_MIN_PLAYERS_TO_START

\* C7: on an existing lobby, start_match by a caller whose normalized address
\* differs from the creator's fails with FF01NotGameMasterError, creates no
\* match and leaves the lobby as it was; a caller whose address differs from the
\* creator's in letter case or surrounding whitespace only never gets that
\* error.
C7_OnlyCreatorStarts ==
  [][ \A l \in LobbyIds, c \in Callers :
        ( /\ last'.op = "start_match"
          /\ l \in DOMAIN lobbies
          /\ start_match(l, c) )
        => IF Norm(c) # Norm(lobbies[l].creator)
           THEN /\ last'.err = "FF01NotGameMasterError"
                /\ UNCHANGED <<lobbies, matches, next_match_id>>
           ELSE last'.err # "FF01NotGameMasterError"
    ]_vars

\* A caller that is not the creator was refused, and a caller whose string
\* differs from the creator's string was let through on another occasion: a
\* started lobby whose creator string is no caller string.
C7_Witness ==
  /\ last.op = "start_match"
  /\ last.err = "FF01NotGameMasterError"
  /\ \E l \in DOMAIN lobbies :
       /\ lobbies[l].phase = "IN_PROGRESS"
       /\ lobbies[l].creator \notin Callers

\* C8: create_lobby raises nothing and stores the requested fee when
\* 0 < requested <= 2 * FF01_ENTRY_FEE_WEI, FF01_ENTRY_FEE_WEI otherwise; every
\* lobby's fee is in (0, 2 * FF01_ENTRY_FEE_WEI], and the LobbyCreated event
\* carries the stored fee.
C8_FeeNormalized ==
  [][ \A c \in Creators, f \in Fees :
        ( /\ last'.op = "create_lobby"
          /\ create_lobby(c, f) )
        => /\ last'.err = "none"
           /\ (f >= 1 /\ f <= 2 * FF01_ENTRY_FEE_WEI)
                => lobbies'[last'.ret].entry_fee_wei = f
           /\ (f < 1 \/ f > 2 * FF01_ENTRY_FEE_WEI)
                => lobbies'[last'.ret].entry_fee_wei = FF01_ENTRY_FEE_WEI
           /\ \A l \in DOMAIN lobbies' :
                /\ lobbies'[l].entry_fee_wei \in 1 .. (2 * FF01_ENTRY_FEE_WEI)
                /\ \E i \in DOMAIN event_log' :
                     /\ event_log'[i][1] = "LobbyCreated"
                     /\ event_log'[i][2].lobbyId = l
                     /\ event_log'[i][2].entryFeeWei = lobbies'[l].entry_fee_wei
    ]_vars

\* A lobby was created with a fee other than the canonical one.
C8_Witness ==
  /\ last.op = "create_lobby"
  /\ lobbies[last.ret].entry_fee_wei = 2 * FF01_ENTRY_FEE_WEI

\* C9: a call that raises leaves lobbies, matches, profiles, the event log and
\* both id counters as they were.
C9_ErrorsChangeNothing ==
  [][ last'.err # "none" => UNCHANGED engine ]_vars

\* A join with too little value was refused.
C9_Witness ==
  /\ last.op = "join_lobby"
  /\ last.err = "FF01InsufficientEntryError"

\* C10: record_kill on an unknown match id or on a match whose end time is set
\* raises nothing and changes nothing, and the kill mapping of an ended match
\* never changes again.
C10_DroppedKillChangesNothing ==
  [][ /\ \A m \in MatchIds, k \in Killers, v \in Victims :
           ( /\ last'.op = "record_kill"
             /\ (m \notin DOMAIN matches \/ matches[m].ended_at > 0)
             /\ record_kill(m, k, v) )
           => /\ last'.err = "none"
              /\ UNCHANGED engine
      /\ \A m \in DOMAIN matches :
           matches[m].ended_at > 0 => matches'[m].kills = matches[m].kills
    ]_vars

\* record_kill was called after the match was ended: the log ends with the
\* MatchEnded event of a match that has recorded kills.
C10_Witness ==
  /\ last.op = "record_kill"
  /\ event_log # << >>
  /\ event_log[Len(event_log)][1] = "MatchEnded"
  /\ \E m \in DOMAIN matches :
       /\ matches[m].ended_at > 0
       /\ \E i \in DOMAIN matches[m].kills : matches[m].kills[i][2] > 0

\* C11: claim_prize changes nothing and logs nothing, whether it returns or
\* raises; and what claim_prize returns for an ended match and a player is the
\* same before and after any step other than end_match (create_lobby,
\* join_lobby, start_match, record_kill, claim_prize), so repeated calls agree.
C11_ClaimIsPureRead ==
  [][ /\ last'.op = "claim_prize" => UNCHANGED engine
      /\ \A m \in MatchIds, p \in Claimants :
           ( /\ last'.op = "claim_prize"
             /\ ClaimError(m) = "none"
             /\ claim_prize(m, p) )
           => last'.ret = ClaimValue(matches[m], p)
      /\ last'.op # "end_match"
           => \A m \in DOMAIN matches :
                matches[m].ended_at > 0
                => /\ m \in DOMAIN matches'
                   /\ matches'[m].ended_at > 0
                   /\ \A p \in Claimants :
                        ClaimValue(matches'[m], p) = ClaimValue(matches[m], p)
    ]_vars

\* The winner of an ended match claimed and got a positive share; no
\* PrizeClaimed event is in the log.
C11_Witness ==
  /\ last.op = "claim_prize"
  /\ last.err = "none"
  /\ last.ret > 0
  /\ \A i \in DOMAIN event_log : event_log[i][1] # "PrizeClaimed"

\* C12: in every step each lobby keeps its phase or goes from WAITING to
\* IN_PROGRESS, the latter only in a successful start_match; a lobby is created
\* WAITING, is never COUNTDOWN or FINISHED and never returns to WAITING.
C12_PhaseOnlyForward ==
  [][ /\ \A l \in DOMAIN lobbies :
           /\ l \in DOMAIN lobbies'
           /\ \/ lobbies'[l].phase = lobbies[l].phase
              \/ /\ lobbies[l].phase = "WAITING"
                 /\ lobbies'[l].phase = "IN_PROGRESS"
                 /\ last'.op = "start_match"
                 /\ last'.err = "none"
      /\ \A l \in DOMAIN lobbies' :
           /\ lobbies'[l].phase \in {"WAITING", "IN_PROGRESS"}
           /\ l \notin DOMAIN lobbies => lobbies'[l].phase = "WAITING"
      /\ last'.op = "end_match" => lobbies' = lobbies
    ]_vars

\* The match of a lobby was ended and the lobby is still IN_PROGRESS.
C12_Witness ==
  /\ last.op = "end_match"
  /\ last.err = "none"
  /\ \E l \in DOMAIN lobbies :
       /\ lobbies[l].phase = "IN_PROGRESS"
       /\ lobbies[l].match_id \in DOMAIN matches
       /\ matches[lobbies[l].match_id].ended_at > 0

\* The keys of a kill-count mapping.
KillKeys(kills) == { kills[i][1] : i \in DOMAIN kills }

\* C13: the key set of a match's kill-count mapping is the set of player
\* strings of the originating lobby when start_match created the match, each
\* with count 0; no step adds or removes a key of an existing match and no
\* kill count decreases.
C13_KillKeysAreStartMembers ==
  [][ /\ \A m \in DOMAIN matches :
           /\ m \in DOMAIN matches'
           /\ KillKeys(matches'[m].kills) = KillKeys(matches[m].kills)
           /\ \A k \in KillKeys(matches[m].kills) :
                DictGet(matches'[m].kills, k, 0) >= DictGet(matches[m].kills, k, 0)
      /\ \A m \in DOMAIN matches' \ DOMAIN matches :
           \E l \in DOMAIN lobbies :
             /\ lobbies'[l].match_id = m
             /\ KillKeys(matches'[m].kills)
                  = { lobbies[l].players[i] : i \in DOMAIN lobbies[l].players }
             /\ \A k \in KillKeys(matches'[m].kills) : DictGet(matches'[m].kills, k, 0) = 0
    ]_vars

\* The event at the end of the new log.
NewEvent == event_log'[Len(event_log')]

\* The new log is the old one with exactly one event of the kind appended.
AppendsOne(kind) ==
  /\ Len(event_log') = Len(event_log) + 1
  /\ SubSeq(event_log', 1, Len(event_log)) = event_log
  /\ NewEvent[1] = kind

\* The event kind of each logging operation.
EventKindOf(op) ==
  CASE op = "create_lobby" -> "LobbyCreated"
    [] op = "join_lobby"   -> "PlayerJoined"
    [] op = "start_match"  -> "MatchStarted"
    [] op = "end_match"    -> "MatchEnded"
    [] op = "record_kill"  -> "KillRecorded"

\* C14: every step keeps the old log as a prefix of the new log; a successful
\* create_lobby, join_lobby, start_match or end_match and a record_kill on a
\* known match that has not ended append exactly one event of their own kind;
\* a failed operation, a dropped record_kill and claim_prize append nothing.
C14_LogAppendOnly ==
  [][ /\ Len(event_log') >= Len(event_log)
      /\ SubSeq(event_log', 1, Len(event_log)) = event_log
      /\ last'.err # "none" => event_log' = event_log
      /\ last'.op = "claim_prize" => event_log' = event_log
      /\ ( /\ last'.op \in {"create_lobby", "join_lobby", "start_match", "end_match"}
           /\ last'.err = "none" )
         => AppendsOne(EventKindOf(last'.op))
      /\ \A m \in MatchIds, k \in Killers, v \in Victims :
           ( /\ last'.op = "record_kill"
             /\ record_kill(m, k, v) )
           => IF KillDropped(m)
              THEN event_log' = event_log
              ELSE AppendsOne("KillRecorded")
    ]_vars

\* A kill was recorded after earlier events: the log ends with a KillRecorded
\* event that follows the MatchStarted event of its match.
C14_Witness ==
  /\ last.op = "record_kill"
  /\ Len(event_log) >= 3
  /\ event_log[Len(event_log)][1] = "KillRecorded"
  /\ \E i \in 1..(Len(event_log) - 1) :
       /\ event_log[i][1] = "MatchStarted"
       /\ event_log[i][2].matchId = event_log[Len(event_log)][2].matchId

\* The thresholds reached by xp, and those strictly above it.
TiersReached(xp) == { i \in DOMAIN FF01_XP_TIERS : FF01_XP_TIERS[i] <= xp }

TiersAbove(xp) == { FF01_XP_TIERS[i] : i \in { j \in DOMAIN FF01_XP_TIERS : FF01_XP_TIERS[j] > xp } }

\* C15: for every xp >= 0, ff01_rank_for_xp(xp) is the rank name of the
\* largest tier index whose threshold is <= xp (so 0 gives the lowest name, an
\* exact threshold gives that tier's name and threshold - 1 the previous
\* one), and ff01_xp_to_next_rank(xp) is the distance to the smallest
\* threshold strictly above xp, or 0 at or above the top threshold.
C15_RankAndGap ==
  /\ last.op = "ff01_rank_for_xp"
       => /\ \E i \in TiersReached(last.xp) :
               /\ \A j \in TiersReached(last.xp) : j <= i
               /\ last.ret = FF01_RANK_NAMES[i]
          /\ last.xp = 0 => last.ret = FF01_RANK_NAMES[1]
          /\ \A i \in DOMAIN FF01_XP_TIERS :
               /\ last.xp = FF01_XP_TIERS[i] => last.ret = FF01_RANK_NAMES[i]
               /\ (i > 1 /\ last.xp = FF01_XP_TIERS[i] - 1) => last.ret = FF01_RANK_NAMES[i - 1]
  /\ last.op = "ff01_xp_to_next_rank"
       => IF TiersAbove(last.xp) = {}
          THEN last.ret = 0 /\ last.xp >= FF01_XP_TIERS[Len(FF01_XP_TIERS)]
          ELSE /\ last.xp + last.ret \in TiersAbove(last.xp)
               /\ \A t \in TiersAbove(last.xp) : last.xp + last.ret <= t

\* The rank of an xp that is exactly the second threshold is the second name.
C15_Witness ==
  /\ last.op = "ff01_rank_for_xp"
  /\ last.xp = FF01_XP_TIERS[2]
  /\ last.ret = "Rookie"

\* C17: record_kill on a known match that has not ended: when the normalized
\* killer equals the lowercased key of a participant, the count of exactly
\* that participant grows by one and nothing else of the mapping changes, also
\* when the killer string differs from the key in case or surrounding
\* whitespace; when it equals none, the mapping is unchanged; in both cases
\* exactly one KillRecorded event is appended.
C17_KillGoesToParticipant ==
  [][ \A m \in MatchIds, k \in Killers, v \in Victims :
        ( /\ last'.op = "record_kill"
          /\ ~KillDropped(m)
          /\ record_kill(m, k, v) )
        => /\ IF Norm(k) \in KillKeysLower(m)
              THEN \E i \in DOMAIN matches[m].kills :
                     /\ Lower(matches[m].kills[i][1]) = Norm(k)
                     /\ matches'[m].kills =
                          [matches[m].kills EXCEPT ![i] = <<@[1], @[2] + 1>>]
              ELSE matches'[m].kills = matches[m].kills
           /\ Len(event_log') = Len(event_log) + 1
           /\ event_log'[Len(event_log')][1] = "KillRecorded"
    ]_vars

\* C18: a join_lobby on an existing lobby that is not WAITING fails with
\* FF01LobbyNotFoundError, the error of an unknown lobby id, and no step
\* changes the player list of a lobby that is not WAITING, end_match of its
\* match included.
C18_NoJoinAfterStart ==
  [][ /\ \A l \in DOMAIN lobbies, p \in Players, v \in Values :
           ( /\ last'.op = "join_lobby"
             /\ lobbies[l].phase # "WAITING"
             /\ join_lobby(l, p, v) )
           => /\ last'.err = "FF01LobbyNotFoundError"
              /\ lobbies' = lobbies
      /\ \A l \in DOMAIN lobbies :
           lobbies[l].phase # "WAITING"
           => /\ l \in DOMAIN lobbies'
              /\ lobbies'[l].players = lobbies[l].players
    ]_vars

\* A join was refused as not found while a lobby is started and its match has
\* ended.
C18_Witness ==
  /\ last.op = "join_lobby"
  /\ last.err = "FF01LobbyNotFoundError"
  /\ \E l \in DOMAIN lobbies :
       /\ lobbies[l].phase = "IN_PROGRESS"
       /\ lobbies[l].match_id \in DOMAIN matches
       /\ matches[lobbies[l].match_id].ended_at > 0

\* C19: start_match succeeds only on a WAITING lobby; a lobby's match_id is
\* unset exactly while the lobby is WAITING, once set it never changes, it
\* names an existing match, and there are never more matches than lobbies.
C19_OneMatchPerLobby ==
  [][ /\ \A l \in LobbyIds, c \in Callers :
           ( /\ last'.op = "start_match"
             /\ last'.err = "none"
             /\ StartError(l, c) = "none"
             /\ start_match(l, c) )
           => lobbies[l].phase = "WAITING"
      /\ \A l \in DOMAIN lobbies' :
           /\ (lobbies'[l].match_id = 0) <=> (lobbies'[l].phase = "WAITING")
           /\ lobbies'[l].match_id # 0 => lobbies'[l].match_id \in DOMAIN matches'
      /\ \A l \in DOMAIN lobbies :
           lobbies[l].match_id # 0 => lobbies'[l].match_id = lobbies[l].match_id
      /\ Cardinality(DOMAIN matches') <= Cardinality(DOMAIN lobbies')
    ]_vars

\* The sum of the counts that a kill-count mapping holds under keys whose
\* lowercased form is key.
RECURSIVE KillSum(_, _)
KillSum(kills, key) ==
  IF kills = << >> THEN 0
  ELSE KillSum(SubSeq(kills, 1, Len(kills) - 1), key)
       + (IF Lower(kills[Len(kills)][1]) = key THEN kills[Len(kills)][2] ELSE 0)

\* The kills of key in the ended matches 1..n.
RECURSIVE EndedKills(_, _)
EndedKills(n, key) ==
  IF n = 0 THEN 0
  ELSE EndedKills(n - 1, key)
       + (IF n \in DOMAIN matches /\ matches[n].ended_at > 0
          THEN KillSum(matches[n].kills, key) ELSE 0)

\* The ended matches in which key took part.
EndedMatchesOf(key) ==
  { m \in DOMAIN matches : matches[m].ended_at > 0 /\ key \in KillKeysLower(m) }

\* Every profile holds the kills and the matches of the ended matches, once.
CreditConserved ==
  \A key \in DOMAIN profiles :
    /\ profiles[key].total_kills = EndedKills(MaxMatches, key)
    /\ profiles[key].total_matches = Cardinality(EndedMatchesOf(key))

\* C20: after every step each profile's total_kills is the sum of its kill
\* counts over the ended matches and its total_matches the number of ended
\* matches it took part in; an end_match on a match that has already ended
\* increases no profile's total_kills, total_matches, total_wins or xp.
C20_CreditConserved ==
  [][ /\ CreditConserved'
      /\ \A m \in MatchIds, w \in Winners :
           ( /\ last'.op = "end_match"
             /\ m \in DOMAIN matches
             /\ matches[m].ended_at > 0
             /\ end_match(m, w) )
           => \A key \in DOMAIN profiles' :
                /\ key \in DOMAIN profiles
                /\ profiles'[key].total_kills <= profiles[key].total_kills
                /\ profiles'[key].total_matches <= profiles[key].total_matches
                /\ profiles'[key].total_wins <= profiles[key].total_wins
                /\ profiles'[key].xp <= profiles[key].xp
    ]_vars

====
